---- MODULE Spec2Model ----
(***************************************************************************)
(* Model of the parquet write path of qdbr:                                *)
(*   parquet_write/file.rs    ParquetWriter, ChunkedWriter, create_row_group, *)
(*                            column_chunk_to_pages, chunk_to_page          *)
(*   parquet_write/binary.rs  binary_to_page, encode_plain, encode_delta    *)
(*                                                                         *)
(* Four specifications share the operators translated from the source:     *)
(*   SpecRanges  the row_group_range iterator of write_chunk               *)
(*   SpecPager   column_chunk_to_pages / chunk_to_page on one column chunk *)
(*   SpecBinary  binary_to_page on one slice of row descriptors            *)
(*   Spec        a ChunkedWriter session: chunked, write_chunk*, finish    *)
(***************************************************************************)
EXTENDS Integers, Sequences, FiniteSets, TLC

\* ------------------------------------------------------------------------
\* Bounds of the model
\* ------------------------------------------------------------------------
MaxRows == 6
MaxRowGroupSize == 3
MaxBinRows == 3
MaxPagerRows == 4
MaxTop == 2
MaxColumns == 2
MaxWriterRows == 2
MaxWriterRowGroupSize == 2
MaxWriterTop == 1
MaxCalls == 2
MaxSymbolRows == 5

\* ------------------------------------------------------------------------
\* Program constants and Option<usize>
\* ------------------------------------------------------------------------
DEFAULT_PAGE_SIZE == 1048576
DEFAULT_ROW_GROUP_SIZE == 262144

\* Option<usize>::None; Some(v) is the number v itself
None == -1

unwrap_or(opt, default) == IF opt = None THEN default ELSE opt

Min(a, b) == IF a < b THEN a ELSE b
Max(a, b) == IF a < b THEN b ELSE a
RECURSIVE SumSeq(_)
SumSeq(s) == IF s = <<>> THEN 0 ELSE Head(s) + SumSeq(Tail(s))

\* ------------------------------------------------------------------------
\* write_chunk: the row_group_range iterator
\*   (0..partition_length).step_by(row_group_size).map(|offset| (offset, length))
\* ------------------------------------------------------------------------
row_group_length_NoTruncate(offset, row_group_size, partition_length) == row_group_size

\* closure of the map: the length of the row group starting at offset
row_group_length(offset, row_group_size, partition_length) ==
    IF offset + row_group_size > partition_length
    THEN partition_length - offset
    ELSE row_group_size

row_group_has_next_Inclusive(pos, partition_length) == pos <= partition_length

\* the iterator has a next element at position pos
row_group_has_next(pos, partition_length) == pos < partition_length

\* the element the iterator yields at position pos
row_group_item(pos, row_group_size, partition_length) ==
    <<pos, row_group_length(pos, row_group_size, partition_length)>>


\* ------------------------------------------------------------------------
\* parquet_write/binary.rs
\* ------------------------------------------------------------------------
\* size_of::<i64>()
size_of_header == 8

\* &s[from..to]: Rust slices are 0-based and half-open
slice(s, from, to) == SubSeq(s, from + 1, to)

\* the bounds check of &s[from..to]: outside it the index panics
slice_in_bounds(s, from, to) == from <= to /\ to <= Len(s)

\* i64::from_le_bytes (types::decode::<i64>): two's complement, little endian
RECURSIVE decode_i64(_)
decode_i64(bytes) ==
    IF Len(bytes) = 1
    THEN (IF bytes[1] >= 128 THEN bytes[1] - 256 ELSE bytes[1])
    ELSE decode_i64(Tail(bytes)) * 256 + Head(bytes)

\* the n low bytes of v, little endian: (len as u32).to_le_bytes() is
\* to_le_bytes(len, 4), which drops every bit above the 32nd
RECURSIVE to_le_bytes(_, _)
to_le_bytes(v, n) ==
    IF n = 0 THEN <<>> ELSE <<v % 256>> \o to_le_bytes(v \div 256, n - 1)

\* types::decode::<i64>(&values[offset..offset + size_of_header])
row_len(values, offset) == decode_i64(slice(values, offset, offset + size_of_header))

\* buffer: Vec<u8> is kept as the sequence of chunks appended to it: the output
\* of the validity encoder ("levels"), the output of the delta encoder ("delta")
\* and raw bytes ("bytes"). Adjacent raw bytes are one chunk.
Chunk(kind, ints, exact) == [kind |-> kind, ints |-> ints, exact |-> exact]

\* buffer.extend_from_slice(bytes)
extend_from_slice(buffer, bytes) ==
    IF bytes = <<>> THEN buffer
    ELSE IF buffer # <<>> /\ buffer[Len(buffer)].kind = "bytes"
    THEN [buffer EXCEPT ![Len(buffer)] =
            Chunk("bytes", @.ints \o bytes, @.exact + Len(bytes))]
    ELSE Append(buffer, Chunk("bytes", bytes, Len(bytes)))

nulls_iterator_ZeroIsNull(offsets, data) ==
    [i \in 1..Len(offsets) |-> ~(row_len(data, offsets[i]) <= 0)]

\* the closure of nulls_iterator, row by row: false for a null row
nulls_iterator(offsets, data) ==
    [i \in 1..Len(offsets) |-> ~(row_len(data, offsets[i]) < 0)]

\* null_count once the iterator has been consumed: one increment per false
null_count_of(nulls) == Cardinality({i \in 1..Len(nulls) : ~nulls[i]})

\* encode_bool_iter(&mut buffer, nulls_iterator, version): consumes the
\* iterator once and appends the bit-packed validity run
encode_bool_iter(buffer, nulls) ==
    Append(buffer,
           Chunk("levels", [i \in 1..Len(nulls) |-> IF nulls[i] THEN 1 ELSE 0],
                 Len(nulls)))

\* delta_bitpacked::encode(ExactSizedIter::new(lengths, exact), buffer)
delta_bitpacked_encode(lengths, exact, buffer) ==
    Append(buffer, Chunk("delta", lengths, exact))

RECURSIVE encode_plain_NoSkip(_, _, _, _)
encode_plain_NoSkip(offsets, values, null_count, buffer) ==
    IF offsets = <<>> THEN buffer
    ELSE LET offset == Head(offsets)
             len == Max(row_len(values, offset), 0)
             value_offset == offset + size_of_header
             data == slice(values, value_offset, value_offset + len)
             encoded_len == to_le_bytes(len, 4)
         IN  encode_plain_NoSkip(Tail(offsets), values, null_count,
                extend_from_slice(extend_from_slice(buffer, encoded_len), data))

RECURSIVE encode_plain(_, _, _, _)
encode_plain(offsets, values, null_count, buffer) ==
    IF offsets = <<>> THEN buffer
    ELSE LET offset == Head(offsets)
             len == row_len(values, offset)
             value_offset == offset + size_of_header
             data == slice(values, value_offset, value_offset + len)
             encoded_len == to_le_bytes(len, 4)
         IN  IF len < 0
             THEN encode_plain(Tail(offsets), values, null_count, buffer)
             ELSE encode_plain(Tail(offsets), values, null_count,
                    extend_from_slice(extend_from_slice(buffer, encoded_len), data))

\* the capacity encode_delta reserves; a negative value is a usize underflow
delta_capacity(offsets, values) ==
    LET row_count == Len(offsets)
        last_offset == offsets[row_count]
        last_size == Max(row_len(values, last_offset), 0)
    IN  (offsets[row_count] - offsets[1] + last_size)
            - ((row_count - 1) * size_of_header)

\* the second loop of encode_delta: the raw bytes of the non-null rows
RECURSIVE delta_values(_, _, _)
delta_values(offsets, values, buffer) ==
    IF offsets = <<>> THEN buffer
    ELSE LET offset == Head(offsets)
             len == row_len(values, offset)
             value_offset == offset + size_of_header
             data == slice(values, value_offset, value_offset + len)
         IN  IF len < 0
             THEN delta_values(Tail(offsets), values, buffer)
             ELSE delta_values(Tail(offsets), values, extend_from_slice(buffer, data))

IsNonNegative(len) == len >= 0
IsPositive(len) == len > 0

encode_delta_SkipEmpty(offsets, values, null_count, buffer) ==
    LET row_count == Len(offsets)
        lengths == SelectSeq([i \in 1..row_count |-> row_len(values, offsets[i])],
                             IsPositive)
    IN  IF row_count = 0
        THEN delta_bitpacked_encode(<<>>, 0, buffer)
        ELSE delta_values(offsets, values,
                delta_bitpacked_encode(lengths, row_count - null_count, buffer))

encode_delta(offsets, values, null_count, buffer) ==
    LET row_count == Len(offsets)
        lengths == SelectSeq([i \in 1..row_count |-> row_len(values, offsets[i])],
                             IsNonNegative)
    IN  IF row_count = 0
        THEN delta_bitpacked_encode(<<>>, 0, buffer)
        ELSE delta_values(offsets, values,
                delta_bitpacked_encode(lengths, row_count - null_count, buffer))

\* ParquetResult<T>
Ok(v) == [status |-> "Ok", value |-> v]
Err(e) == [status |-> "Err", value |-> e]
Panic(msg) == [status |-> "Panic", value |-> msg]

\* build_plain_page(buffer, num_rows, num_values, null_count,
\*                  definition_levels_byte_length, None, type_, options, encoding)
build_plain_page(buffer, num_rows, num_values, null_count, def_len, encoding) ==
    [buffer |-> buffer, num_rows |-> num_rows, num_values |-> num_values,
     null_count |-> null_count, definition_levels_byte_length |-> def_len,
     statistics |-> "None", encoding |-> encoding]

\* the match on encoding: the buffer after the value payload has been appended
encode_values(offsets, data, null_count, buffer, encoding) ==
    IF encoding = "Plain" THEN encode_plain(offsets, data, null_count, buffer)
    ELSE encode_delta(offsets, data, null_count, buffer)

binary_to_page(offsets, data, encoding) ==
    LET nulls == nulls_iterator(offsets, data)
        null_count == null_count_of(nulls)
        buffer == encode_bool_iter(<<>>, nulls)
        definition_levels_byte_length == Len(buffer)
    IN  IF encoding \notin {"Plain", "DeltaLengthByteArray"}
        THEN Err("OutOfSpec")
        ELSE IF encoding = "DeltaLengthByteArray" /\ offsets # <<>>
                /\ delta_capacity(offsets, data) < 0
        THEN Panic("attempt to subtract with overflow")
        ELSE Ok(build_plain_page(
                  encode_values(offsets, data, null_count, buffer, encoding),
                  Len(offsets), Len(offsets), null_count,
                  definition_levels_byte_length, encoding))

\* ------------------------------------------------------------------------
\* The storage layout binary_to_page reads (spec 4.5): each row is an i64
\* length header followed by the value's bytes; a null row is the header -1
\* ------------------------------------------------------------------------
NullRow == [null |-> TRUE, bytes |-> <<>>]
Val(bytes) == [null |-> FALSE, bytes |-> bytes]

row_bytes(row) ==
    IF row.null THEN to_le_bytes(-1, size_of_header)
    ELSE to_le_bytes(Len(row.bytes), size_of_header) \o row.bytes

RECURSIVE blob_of(_)
blob_of(rows) == IF rows = <<>> THEN <<>> ELSE row_bytes(Head(rows)) \o blob_of(Tail(rows))

offsets_of(rows) == [i \in 1..Len(rows) |-> Len(blob_of(SubSeq(rows, 1, i - 1)))]

\* ------------------------------------------------------------------------
\* parquet_write/file.rs: column_chunk_to_pages and chunk_to_page
\* ------------------------------------------------------------------------
PhysicalTypes ==
    {"Boolean", "Int32", "Int64", "Int96", "Float", "Double", "ByteArray",
     "FixedLenByteArray"}

bytes_per_type(primitive_type) ==
    CASE primitive_type = "Boolean" -> 1
      [] primitive_type = "Int32" -> 4
      [] primitive_type = "Int96" -> 12
      [] primitive_type = "Float" -> 4
      [] OTHER -> 8

\* let rows_per_page = max_page_size / bytes_per_type(physical_type)
rows_per_page_of(data_page_size, primitive_type) ==
    unwrap_or(data_page_size, DEFAULT_PAGE_SIZE) \div bytes_per_type(primitive_type)

page_length_NoTruncate(offset, rows_per_page, number_of_rows) == rows_per_page

\* closure of `rows`: the length of the page at offset (relative to the chunk)
page_length(offset, rows_per_page, number_of_rows) ==
    IF offset + rows_per_page > number_of_rows
    THEN number_of_rows - offset
    ELSE rows_per_page

\* the (absolute offset, length) the `rows` iterator yields at position pos
page_item(pos, chunk_offset, rows_per_page, number_of_rows) ==
    <<chunk_offset + pos, page_length(pos, rows_per_page, number_of_rows)>>

lower_bound_NoTop(offset, column_top) == offset

lower_bound(offset, column_top) ==
    IF offset < column_top THEN 0 ELSE offset - column_top

upper_bound(offset, length, column_top) ==
    IF offset + length < column_top THEN 0 ELSE offset + length - column_top

\* chunk_to_page: the match on column.data_type. Binary goes to
\* binary::binary_to_page with the sliced descriptors; the encoders of the
\* other types are outside the model and stand as the arguments they get.
chunk_to_page(column, offset, length, encoding) ==
    LET column_top == column.column_top
        lower == lower_bound(offset, column_top)
        upper == upper_bound(offset, length, column_top)
        buffer == IF column.data_type = "Binary" THEN column.secondary_data
                  ELSE column.primary_data
    IN  IF ~slice_in_bounds(buffer, lower, upper)
        THEN Panic("range end index out of range for slice")
        ELSE IF column.data_type = "Binary"
        THEN binary_to_page(slice(column.secondary_data, lower, upper),
                            column.primary_data, encoding)
        ELSE Ok([encoder |-> "primitive::int_slice_to_page",
                 slice |-> slice(column.primary_data, lower, upper),
                 column_top |-> column_top])

\* Column::from_raw_data for a Binary column: the aux offsets and the data blob
\* of the materialized rows (row_count - column_top of them)
BinaryColumn(row_count, column_top, rows) ==
    [data_type |-> "Binary", row_count |-> row_count, column_top |-> column_top,
     primary_data |-> blob_of(rows), secondary_data |-> offsets_of(rows),
     symbol_result |-> "none"]

\* a Long column: one value per materialized row
LongColumn(row_count, column_top) ==
    [data_type |-> "Long", row_count |-> row_count, column_top |-> column_top,
     primary_data |-> [i \in 1..(row_count - column_top) |-> 100 + i],
     secondary_data |-> <<>>, symbol_result |-> "none"]

\* the values of the first n materialized rows of a Binary column
PatternRows(n) ==
    [i \in 1..n |-> CASE i % 4 = 1 -> Val(<<97>>)
                      [] i % 4 = 2 -> NullRow
                      [] i % 4 = 3 -> Val(<<99, 99, 99>>)
                      [] OTHER -> Val(<<>>)]

\* ------------------------------------------------------------------------
\* parquet_write/file.rs: create_row_group and the row group handed to
\* FileWriter::write
\* ------------------------------------------------------------------------
\* a Symbol column: one i32 key per row in primary_data; symbol_result is what
\* symbol::symbol_to_pages returns for this column's dictionary and keys
SymbolColumn(row_count, symbol_result) ==
    [data_type |-> "Symbol", row_count |-> row_count, column_top |-> 0,
     primary_data |-> [i \in 1..(4 * row_count) |->
                          IF i % 4 = 1 THEN ((i - 1) \div 4) % 3 ELSE 0],
     secondary_data |-> <<>>, symbol_result |-> symbol_result]

\* a Symbol column whose primary_data holds the given i32 keys, 4 bytes each
SymbolColumnOfKeys(keys, symbol_result) ==
    [data_type |-> "Symbol", row_count |-> Len(keys), column_top |-> 0,
     primary_data |-> [i \in 1..(4 * Len(keys)) |->
                          to_le_bytes(keys[((i - 1) \div 4) + 1], 4)[((i - 1) % 4) + 1]],
     secondary_data |-> <<>>, symbol_result |-> symbol_result]

\* an i32 read of 4 bytes, two's complement, little endian
decode_i32(bytes) == decode_i64(bytes)

\* the bytes [from, to) of a buffer as a read past its end sees them: the
\* bytes past the end belong to no object, 0 stands for what is found there
read_bytes(s, from, to) ==
    [i \in 1..(to - from) |-> IF from + i <= Len(s) THEN s[from + i] ELSE 0]

\* the key slice of the symbol branch of column_chunk_to_pages:
\*   let keys: &[i32] = unsafe {
\*       mem::transmute(&column.primary_data[chunk_offset..chunk_offset + chunk_length]) };
\* The index takes BYTES chunk_offset .. chunk_offset + chunk_length of the
\* u8 buffer (bounds-checked); transmute keeps the pointer and the element
\* count of the slice reference, so keys starts at byte chunk_offset and has
\* chunk_length i32 elements: it covers the bytes
\* [chunk_offset, chunk_offset + 4 * chunk_length). The result is the set of
\* outcomes: a slice that is not 4-aligned or that runs past the buffer is
\* undefined behaviour, which either reads the bytes found there or faults.
symbol_key_slice(primary_data, chunk_offset, chunk_length) ==
    IF ~slice_in_bounds(primary_data, chunk_offset, chunk_offset + chunk_length)
    THEN {Panic("range end index out of range for slice")}
    ELSE LET from == chunk_offset
             to == chunk_offset + 4 * chunk_length
             read == Ok([keys |-> [k \in 1..chunk_length |->
                                     decode_i32(read_bytes(primary_data,
                                                           from + 4 * (k - 1), from + 4 * k))],
                         from |-> from, to |-> to])
         IN  IF from % 4 = 0 /\ to <= Len(primary_data)
             THEN {read}
             ELSE {read, Panic("misaligned or out of bounds i32 read")}

\* to_parquet_schema: the physical type of the field of each column
physical_type_of(data_type) == IF data_type = "Long" THEN "Int64" ELSE "ByteArray"
to_parquet_schema(data_types) ==
    [i \in 1..Len(data_types) |->
        [data_type |-> data_types[i], physical_type |-> physical_type_of(data_types[i])]]

\* one entry of a page stream: the closure that builds a page when pulled
PageItem(source, offset, length) ==
    [source |-> source, offset |-> offset, length |-> length]

\* the `rows` iterator of column_chunk_to_pages as a sequence
page_ranges(chunk_offset, chunk_length, rows_per_page) ==
    [k \in 1..((chunk_length + rows_per_page - 1) \div rows_per_page) |->
        page_item((k - 1) * rows_per_page, chunk_offset, rows_per_page, chunk_length)]

\* column_chunk_to_pages: for a Symbol column the result of symbol_to_pages
\* (a dictionary page and a data page), else the lazy page iterator; nothing
\* is encoded here for the other columns
column_chunk_to_pages(column, parquet_type, chunk_offset, chunk_length, options, encoding) ==
    IF column.data_type = "Symbol"
    THEN IF ~slice_in_bounds(column.primary_data, chunk_offset, chunk_offset + chunk_length)
         THEN Panic("range end index out of range for slice")
         ELSE IF column.symbol_result = "Err"
         THEN Err("symbol_to_pages")
         ELSE Ok(<<PageItem("symbol dictionary", chunk_offset, chunk_length),
                   PageItem("symbol data", chunk_offset, chunk_length)>>)
    ELSE LET rows_per_page == rows_per_page_of(options.data_page_size, parquet_type.physical_type)
             ranges == page_ranges(chunk_offset, chunk_length, rows_per_page)
         IN  IF rows_per_page = 0
             THEN Panic("assertion failed: step != 0")
             ELSE Ok([k \in 1..Len(ranges) |->
                        PageItem("chunk_to_page", ranges[k][1], ranges[k][2])])

\* the closure col_to_iter: column_chunk_to_pages(..).expect("encoded_column")
col_to_iter(column, column_type, encoding, offset, length, options) ==
    LET encoded_column ==
            column_chunk_to_pages(column, column_type, offset, length, options, encoding)
    IN  IF encoded_column.status = "Ok"
        THEN Ok([column |-> column, encoding |-> encoding, pages |-> encoded_column.value])
        ELSE Panic("encoded_column")

IsOk(result) == result.status = "Ok"

\* create_row_group: zip the columns with the fields and the encodings,
\* flat_map each through col_to_iter (an Err item would be dropped), collect
create_row_group(partition, offset, length, column_types, encoding, options) ==
    LET n == Min(Len(partition), Min(Len(column_types), Len(encoding)))
        iters == [i \in 1..n |->
                    col_to_iter(partition[i], column_types[i], encoding[i],
                                offset, length, options)]
        kept == SelectSeq(iters, IsOk)
    IN  IF \E i \in 1..n : iters[i].status = "Panic"
        THEN Panic("encoded_column")
        ELSE Ok([i \in 1..Len(kept) |-> kept[i].value])

\* the page a stream yields when the file writer pulls one of its items
pull_page(stream, item) ==
    IF item.source = "chunk_to_page"
    THEN chunk_to_page(stream.column, item.offset, item.length, stream.encoding)
    ELSE Ok([encoder |-> "symbol::symbol_to_pages", kind |-> item.source])

\* every page of a row group in the order the file writer pulls them: column by
\* column, page by page
RECURSIVE row_group_pulls(_, _)
row_group_pulls(row_group, i) ==
    IF i > Len(row_group) THEN <<>>
    ELSE [k \in 1..Len(row_group[i].pages) |->
             [column |-> i, offset |-> row_group[i].pages[k].offset,
              length |-> row_group[i].pages[k].length,
              page |-> pull_page(row_group[i], row_group[i].pages[k])]]
         \o row_group_pulls(row_group, i + 1)

\* the first pull that does not yield a page, or 0
first_failure(pulls) ==
    IF \E k \in 1..Len(pulls) : pulls[k].page.status # "Ok"
    THEN CHOOSE k \in 1..Len(pulls) :
            /\ pulls[k].page.status # "Ok"
            /\ \A j \in 1..(k - 1) : pulls[j].page.status = "Ok"
    ELSE 0

\* FileWriter::write(row_group): every page is compressed and written to the
\* sink as it is pulled; the first failing page ends the call with its error
file_writer_write(row_group) ==
    LET pulls == row_group_pulls(row_group, 1)
        f == first_failure(pulls)
    IN  [status |-> IF f = 0 THEN "Ok" ELSE pulls[f].page.status,
         error |-> IF f = 0 THEN "none" ELSE pulls[f].page.value,
         written |-> IF f = 0 THEN pulls ELSE SubSeq(pulls, 1, f - 1)]

\* ------------------------------------------------------------------------
\* State of SpecRanges
\* ------------------------------------------------------------------------
VARIABLES
    r_size,     \* options.row_group_size (None or Some(B))
    r_len,      \* partition.columns[0].row_count
    r_pos,      \* position of the step_by iterator
    r_out,      \* the (offset, length) pairs handed to create_row_group so far
    r_pc        \* "idle" | "loop" | "done"

rangeVars == <<r_size, r_len, r_pos, r_out, r_pc>>

\* ------------------------------------------------------------------------
\* State of SpecBinary: one call of binary_to_page
\* ------------------------------------------------------------------------
VARIABLES
    b_rows,        \* the values the storage engine laid out (NullRow or bytes)
    b_offsets,     \* offsets: &[i64], the row descriptors of the slice
    b_data,        \* data: &[u8], the blob the descriptors point into
    b_encoding,    \* encoding: Encoding
    b_buffer,      \* buffer: Vec<u8>, as the chunks appended to it
    b_null_count,  \* null_count
    b_def_len,     \* definition_levels_byte_length
    b_result,      \* what binary_to_page returns
    b_pc           \* "idle" | "start" | "payload" | "assemble" | "done" | "err"

binVars == <<b_rows, b_offsets, b_data, b_encoding, b_buffer, b_null_count,
             b_def_len, b_result, b_pc>>

\* ------------------------------------------------------------------------
\* State of SpecPager: one call of column_chunk_to_pages and its page iterator
\* ------------------------------------------------------------------------
VARIABLES
    p_column,        \* column: Column
    p_type,          \* the physical type of parquet_type
    p_page_size,     \* options.data_page_size (None or Some(bytes))
    p_encoding,      \* encoding
    p_chunk_offset,  \* chunk_offset
    p_chunk_length,  \* chunk_length
    p_pos,           \* position of the step_by iterator over 0..number_of_rows
    p_pages,         \* the pages pulled so far, with the range each was built for
    p_keys,          \* the key slice handed to symbol::symbol_to_pages
    p_pc             \* "idle" | "call" | "iter" | "done" | "panic" | "symbol" | "fault"

pagerVars == <<p_column, p_type, p_page_size, p_encoding, p_chunk_offset,
               p_chunk_length, p_pos, p_pages, p_keys, p_pc>>

\* ------------------------------------------------------------------------
\* State of Spec: a ParquetWriter / ChunkedWriter session
\* ------------------------------------------------------------------------
VARIABLES
    w_options,     \* ChunkedWriter.options: row_group_size, data_page_size
    w_schema,      \* ChunkedWriter.parquet_schema: the fields
    w_encodings,   \* ChunkedWriter.encodings
    w_pc,          \* "idle" | "new" | "open" | "writing" | "failed" | "panicked" | "finished"
    w_partition,   \* the partition of the write_chunk call in progress
    w_pos,         \* position of the row_group_range iterator
    w_sink,        \* the pages written to the sink W, in order
    w_row_groups,  \* FileWriter: the row groups completed so far
    w_footer,      \* the row groups the footer lists once finish has run
    w_calls,       \* the row count of every write_chunk call that returned Ok
    w_result,      \* what the last write_chunk call returned
    w_fault        \* the encoder-level failure raised during the session, if any

writerVars == <<w_options, w_schema, w_encodings, w_pc, w_partition, w_pos, w_sink,
                w_row_groups, w_footer, w_calls, w_result, w_fault>>

vars == <<rangeVars, binVars, pagerVars, writerVars>>

RangesIdle ==
    /\ r_size = None /\ r_len = 0 /\ r_pos = 0 /\ r_out = <<>> /\ r_pc = "idle"

\* the row counts and budgets explored: every small pair, and the 1,000,000 row
\* partition under the default budget
RangesInit ==
    /\ r_size \in {None} \cup (1..MaxRowGroupSize)
    /\ r_len \in (0..MaxRows) \cup {1000000}
    /\ (r_len > MaxRows => r_size = None)
    /\ r_pos = 0
    /\ r_out = <<>>
    /\ r_pc = "loop"

\* one iteration of `for (offset, length) in row_group_range`
RangeNext ==
    /\ r_pc = "loop"
    /\ row_group_has_next(r_pos, r_len)
    /\ r_out' = Append(r_out,
          row_group_item(r_pos, unwrap_or(r_size, DEFAULT_ROW_GROUP_SIZE), r_len))
    /\ r_pos' = r_pos + unwrap_or(r_size, DEFAULT_ROW_GROUP_SIZE)
    /\ UNCHANGED <<r_size, r_len, r_pc>>
    /\ UNCHANGED <<binVars, pagerVars, writerVars>>

\* the iterator is exhausted: write_chunk returns Ok(())
RangeEnd ==
    /\ r_pc = "loop"
    /\ ~row_group_has_next(r_pos, r_len)
    /\ r_pc' = "done"
    /\ UNCHANGED <<r_size, r_len, r_pos, r_out>>
    /\ UNCHANGED <<binVars, pagerVars, writerVars>>

NextRanges == RangeNext \/ RangeEnd

\* ------------------------------------------------------------------------
\* SpecBinary: binary_to_page, step by step
\* ------------------------------------------------------------------------
BinIdle ==
    /\ b_rows = <<>> /\ b_offsets = <<>> /\ b_data = <<>> /\ b_encoding = "Plain"
    /\ b_buffer = <<>> /\ b_null_count = 0 /\ b_def_len = 0
    /\ b_result = Ok("none") /\ b_pc = "idle"

BinValues == {NullRow, Val(<<>>), Val(<<97>>), Val(<<99, 99, 99>>)}

\* the rows "a", null, "ccc", "", null
ExampleRows == <<Val(<<97>>), NullRow, Val(<<99, 99, 99>>), Val(<<>>), NullRow>>

BinColumns == (UNION {[1..n -> BinValues] : n \in 0..MaxBinRows}) \cup {ExampleRows}

Encodings == {"Plain", "DeltaLengthByteArray", "RleDictionary"}

\* a column laid out by the storage engine, and the slice [lower, upper) of its
\* descriptors that chunk_to_page hands over
BinInit ==
    /\ \E rows \in BinColumns : \E lower \in 0..Len(rows) : \E upper \in lower..Len(rows) :
          /\ b_rows = slice(rows, lower, upper)
          /\ b_offsets = slice(offsets_of(rows), lower, upper)
          /\ b_data = blob_of(rows)
    /\ b_encoding \in Encodings
    /\ b_buffer = <<>>
    /\ b_null_count = 0
    /\ b_def_len = 0
    /\ b_result = Ok("none")
    /\ b_pc = "start"

\* step 1: the null mask (binary.rs 43-59)
BinNullMask ==
    /\ b_pc = "start"
    /\ b_buffer' = encode_bool_iter(b_buffer, nulls_iterator(b_offsets, b_data))
    /\ b_null_count' = null_count_of(nulls_iterator(b_offsets, b_data))
    /\ b_def_len' = Len(b_buffer')
    /\ b_pc' = "payload"
    /\ UNCHANGED <<b_rows, b_offsets, b_data, b_encoding, b_result>>
    /\ UNCHANGED <<rangeVars, pagerVars, writerVars>>

\* step 2, Encoding::Plain
BinEncodePlain ==
    /\ b_pc = "payload"
    /\ b_encoding = "Plain"
    /\ b_buffer' = encode_plain(b_offsets, b_data, b_null_count, b_buffer)
    /\ b_pc' = "assemble"
    /\ UNCHANGED <<b_rows, b_offsets, b_data, b_encoding, b_null_count, b_def_len,
                   b_result>>
    /\ UNCHANGED <<rangeVars, pagerVars, writerVars>>

\* step 2, Encoding::DeltaLengthByteArray
BinEncodeDelta ==
    /\ b_pc = "payload"
    /\ b_encoding = "DeltaLengthByteArray"
    /\ IF b_offsets # <<>> /\ delta_capacity(b_offsets, b_data) < 0
       THEN /\ b_result' = Panic("attempt to subtract with overflow")
            /\ b_pc' = "panic"
            /\ UNCHANGED b_buffer
       ELSE /\ b_buffer' = encode_delta(b_offsets, b_data, b_null_count, b_buffer)
            /\ b_pc' = "assemble"
            /\ UNCHANGED b_result
    /\ UNCHANGED <<b_rows, b_offsets, b_data, b_encoding, b_null_count, b_def_len>>
    /\ UNCHANGED <<rangeVars, pagerVars, writerVars>>

\* step 2, any other encoding: Err(ParquetError::OutOfSpec)?
BinOutOfSpec ==
    /\ b_pc = "payload"
    /\ b_encoding \notin {"Plain", "DeltaLengthByteArray"}
    /\ b_result' = Err("OutOfSpec")
    /\ b_pc' = "err"
    /\ UNCHANGED <<b_rows, b_offsets, b_data, b_encoding, b_buffer, b_null_count,
                   b_def_len>>
    /\ UNCHANGED <<rangeVars, pagerVars, writerVars>>

\* step 3: build_plain_page(..).map(Page::Data)
BinBuildPage ==
    /\ b_pc = "assemble"
    /\ b_result' = Ok(build_plain_page(b_buffer, Len(b_offsets), Len(b_offsets),
                                       b_null_count, b_def_len, b_encoding))
    /\ b_pc' = "done"
    /\ UNCHANGED <<b_rows, b_offsets, b_data, b_encoding, b_buffer, b_null_count,
                   b_def_len>>
    /\ UNCHANGED <<rangeVars, pagerVars, writerVars>>

NextBinary ==
    BinNullMask \/ BinEncodePlain \/ BinEncodeDelta \/ BinOutOfSpec \/ BinBuildPage

\* ------------------------------------------------------------------------
\* SpecPager: one call of column_chunk_to_pages
\* ------------------------------------------------------------------------
PagerIdle ==
    /\ p_column = LongColumn(0, 0) /\ p_type = "Int64" /\ p_page_size = None
    /\ p_encoding = "Plain" /\ p_chunk_offset = 0 /\ p_chunk_length = 0
    /\ p_pos = 0 /\ p_pages = <<>> /\ p_keys = Ok("none") /\ p_pc = "idle"

PageSizes == {None, 4, 8, 16, 24}

\* the keys of the symbol columns: the row number, and a repeating 0, 1, 2
SymbolKeySeqs ==
    UNION {{[r \in 1..n |-> r - 1], [r \in 1..n |-> (r - 1) % 3]} : n \in 1..MaxSymbolRows}

PagerInit ==
    /\ \/ /\ \E row_count \in 1..MaxPagerRows : \E column_top \in 0..Min(row_count, MaxTop) :
                p_column \in {BinaryColumn(row_count, column_top,
                                           PatternRows(row_count - column_top)),
                              LongColumn(row_count, column_top)}
          /\ p_type \in PhysicalTypes
          /\ p_page_size \in PageSizes
          /\ p_encoding \in {"Plain", "DeltaLengthByteArray"}
       \/ /\ \E keys \in SymbolKeySeqs : \E symbol_result \in {"Ok", "Err"} :
                p_column = SymbolColumnOfKeys(keys, symbol_result)
          /\ p_type = "Int32"
          /\ p_page_size \in PageSizes
          /\ p_encoding = "RleDictionary"
    /\ p_keys = Ok("none")
    /\ p_chunk_offset \in 0..(p_column.row_count - 1)
    /\ p_chunk_length \in 1..(p_column.row_count - p_chunk_offset)
    /\ p_pos = 0
    /\ p_pages = <<>>
    /\ p_pc = "call"

\* column_chunk_to_pages builds the iterators; step_by(0) panics
PagerCall ==
    /\ p_pc = "call"
    /\ p_column.data_type # "Symbol"
    /\ p_pc' = IF rows_per_page_of(p_page_size, p_type) = 0 THEN "panic" ELSE "iter"
    /\ UNCHANGED <<p_column, p_type, p_page_size, p_encoding, p_chunk_offset,
                   p_chunk_length, p_pos, p_pages, p_keys>>
    /\ UNCHANGED <<rangeVars, binVars, writerVars>>

\* column_chunk_to_pages on a Symbol column: the key slice is taken and
\* handed to symbol::symbol_to_pages, whose result is returned
PagerSymbol ==
    /\ p_pc = "call"
    /\ p_column.data_type = "Symbol"
    /\ p_keys' \in symbol_key_slice(p_column.primary_data, p_chunk_offset, p_chunk_length)
    /\ p_pc' = IF p_keys'.status = "Ok" THEN "symbol" ELSE "fault"
    /\ UNCHANGED <<p_column, p_type, p_page_size, p_encoding, p_chunk_offset,
                   p_chunk_length, p_pos, p_pages>>
    /\ UNCHANGED <<rangeVars, binVars, writerVars>>

\* the consumer pulls the next page: the `rows` closure, then chunk_to_page
PagerNextPage ==
    /\ p_pc = "iter"
    /\ p_pos < p_chunk_length
    /\ LET rows_per_page == rows_per_page_of(p_page_size, p_type)
           item == page_item(p_pos, p_chunk_offset, rows_per_page, p_chunk_length)
       IN  /\ p_pages' = Append(p_pages,
                  [offset |-> item[1], length |-> item[2],
                   lower |-> lower_bound(item[1], p_column.column_top),
                   upper |-> upper_bound(item[1], item[2], p_column.column_top),
                   page |-> chunk_to_page(p_column, item[1], item[2], p_encoding)])
           /\ p_pos' = p_pos + rows_per_page
    /\ UNCHANGED <<p_column, p_type, p_page_size, p_encoding, p_chunk_offset,
                   p_chunk_length, p_keys, p_pc>>
    /\ UNCHANGED <<rangeVars, binVars, writerVars>>

\* the page iterator is exhausted
PagerEnd ==
    /\ p_pc = "iter"
    /\ ~(p_pos < p_chunk_length)
    /\ p_pc' = "done"
    /\ UNCHANGED <<p_column, p_type, p_page_size, p_encoding, p_chunk_offset,
                   p_chunk_length, p_pos, p_pages, p_keys>>
    /\ UNCHANGED <<rangeVars, binVars, writerVars>>

NextPager == PagerCall \/ PagerSymbol \/ PagerNextPage \/ PagerEnd

\* ------------------------------------------------------------------------
\* Spec: ParquetWriter::chunked, ChunkedWriter::write_chunk, ChunkedWriter::finish
\* ------------------------------------------------------------------------
WriterIdle ==
    /\ w_options = [row_group_size |-> None, data_page_size |-> None]
    /\ w_schema = <<>> /\ w_encodings = <<>> /\ w_pc = "idle" /\ w_partition = <<>>
    /\ w_pos = 0 /\ w_sink = <<>> /\ w_row_groups = <<>> /\ w_footer = <<>>
    /\ w_calls = <<>> /\ w_result = Ok("none") /\ w_fault = "none"

\* ParquetWriter::new and the builder setters
WriterInit ==
    /\ w_options \in [row_group_size : {None} \cup (1..MaxWriterRowGroupSize),
                      data_page_size : {None, 4, 8}]
    /\ w_schema = <<>> /\ w_encodings = <<>> /\ w_pc = "new" /\ w_partition = <<>>
    /\ w_pos = 0 /\ w_sink = <<>> /\ w_row_groups = <<>> /\ w_footer = <<>>
    /\ w_calls = <<>> /\ w_result = Ok("none") /\ w_fault = "none"

ColumnTypeSeqs == UNION {[1..n -> {"Binary", "Symbol"}] : n \in 1..MaxColumns}

\* to_encodings: one encoding per column, fixed for the file
EncodingSeqs(data_types) ==
    {e \in [1..Len(data_types) -> Encodings] :
        \A i \in 1..Len(data_types) : data_types[i] = "Symbol" => e[i] = "RleDictionary"}

\* a partition with the column types of the schema
PartitionOf(data_types, row_count, column_top, symbol_result) ==
    [i \in 1..Len(data_types) |->
        IF data_types[i] = "Binary"
        THEN BinaryColumn(row_count, column_top, PatternRows(row_count - column_top))
        ELSE SymbolColumn(row_count, symbol_result)]

\* the column types of the partitions a caller may pass to write_chunk: the
\* ones the schema was computed from, the same without the last column, and
\* the same with one more column (write_chunk takes any Partition)
PartitionTypeSeqs(schema) ==
    LET data_types == [i \in 1..Len(schema) |-> schema[i].data_type]
    IN  {data_types}
          \cup (IF Len(schema) > 1
                THEN {SubSeq(data_types, 1, Len(schema) - 1)} ELSE {})
          \cup (IF Len(schema) < MaxColumns
                THEN {Append(data_types, "Binary")} ELSE {})

\* ParquetWriter::chunked(&partition)
Chunked ==
    /\ w_pc = "new"
    /\ \E data_types \in ColumnTypeSeqs :
          /\ w_schema' = to_parquet_schema(data_types)
          /\ w_encodings' \in EncodingSeqs(data_types)
    /\ w_pc' = "open"
    /\ UNCHANGED <<w_options, w_partition, w_pos, w_sink, w_row_groups, w_footer,
                   w_calls, w_result, w_fault>>
    /\ UNCHANGED <<rangeVars, binVars, pagerVars>>

\* ChunkedWriter::write_chunk(partition) is entered
WriteChunkCall ==
    /\ w_pc = "open"
    /\ Len(w_calls) < MaxCalls
    /\ \E row_count \in 0..MaxWriterRows :
       \E column_top \in 0..Min(row_count, MaxWriterTop) :
       \E symbol_result \in {"Ok", "Err"} :
       \E data_types \in PartitionTypeSeqs(w_schema) :
          \* a partition with another number of columns is passed with one row
          /\ Len(data_types) # Len(w_schema) => row_count = 1 /\ column_top = 0
          /\ w_partition' = PartitionOf(data_types, row_count, column_top, symbol_result)
    /\ w_pos' = 0
    /\ w_pc' = "writing"
    /\ UNCHANGED <<w_options, w_schema, w_encodings, w_sink, w_row_groups, w_footer,
                   w_calls, w_result, w_fault>>
    /\ UNCHANGED <<rangeVars, binVars, pagerVars>>

w_row_group_size == unwrap_or(w_options.row_group_size, DEFAULT_ROW_GROUP_SIZE)
w_partition_length == w_partition[1].row_count
w_item == row_group_item(w_pos, w_row_group_size, w_partition_length)
w_created ==
    create_row_group(w_partition, w_item[1], w_item[2], w_schema, w_encodings, w_options)
w_written == file_writer_write(w_created.value)

\* the pages of one row group as the sink receives them
SinkPages(pulls) ==
    [k \in 1..Len(pulls) |->
        [call |-> Len(w_calls) + 1, row_group |-> w_item[1], column |-> pulls[k].column,
         offset |-> pulls[k].offset, length |-> pulls[k].length]]

\* the failure an encoder has returned while this row group was built or written
fault_of(partition, created, written) ==
    IF \E i \in 1..Len(partition) :
          partition[i].data_type = "Symbol" /\ partition[i].symbol_result = "Err"
    THEN "symbol_to_pages"
    ELSE IF created.status = "Ok" /\ written.status = "Err" THEN written.error
    ELSE "none"

\* how the loop body ends: "Ok", "Err" (returned through `?`) or "Panic"
w_outcome == IF w_created.status = "Ok" THEN w_written.status ELSE w_created.status

\* one iteration of the loop: create_row_group, then self.writer.write(row_group?)?
WriteRowGroupOk ==
    /\ w_pc = "writing"
    /\ row_group_has_next(w_pos, w_partition_length)
    /\ w_outcome = "Ok"
    /\ w_sink' = w_sink \o SinkPages(w_written.written)
    /\ w_row_groups' = Append(w_row_groups,
          [call |-> Len(w_calls) + 1, offset |-> w_item[1], length |-> w_item[2],
           columns |-> Len(w_created.value)])
    /\ w_pos' = w_pos + w_row_group_size
    /\ UNCHANGED <<w_options, w_schema, w_encodings, w_pc, w_partition, w_footer,
                   w_calls, w_result, w_fault>>
    /\ UNCHANGED <<rangeVars, binVars, pagerVars>>

\* a page fails while the file writer pulls it: write returns the error and
\* write_chunk returns it through `?`
WriteRowGroupErr ==
    /\ w_pc = "writing"
    /\ row_group_has_next(w_pos, w_partition_length)
    /\ w_outcome = "Err"
    /\ w_sink' = w_sink \o SinkPages(w_written.written)
    /\ w_result' = Err(w_written.error)
    /\ w_fault' = fault_of(w_partition, w_created, w_written)
    /\ w_pc' = "failed"
    /\ UNCHANGED <<w_options, w_schema, w_encodings, w_partition, w_pos, w_row_groups,
                   w_footer, w_calls>>
    /\ UNCHANGED <<rangeVars, binVars, pagerVars>>

\* create_row_group or a page closure panics: write_chunk does not return
WriteRowGroupPanic ==
    /\ w_pc = "writing"
    /\ row_group_has_next(w_pos, w_partition_length)
    /\ w_outcome = "Panic"
    /\ w_sink' = IF w_created.status = "Ok"
                 THEN w_sink \o SinkPages(w_written.written) ELSE w_sink
    /\ w_result' = Panic("write_chunk")
    /\ w_fault' = fault_of(w_partition, w_created, [status |-> "Panic"])
    /\ w_pc' = "panicked"
    /\ UNCHANGED <<w_options, w_schema, w_encodings, w_partition, w_pos, w_row_groups,
                   w_footer, w_calls>>
    /\ UNCHANGED <<rangeVars, binVars, pagerVars>>

\* the range iterator is exhausted: Ok(()); the partition was passed by value
\* and is dropped when write_chunk returns
WriteChunkReturn ==
    /\ w_pc = "writing"
    /\ ~row_group_has_next(w_pos, w_partition_length)
    /\ w_calls' = Append(w_calls, w_partition_length)
    /\ w_result' = Ok("unit")
    /\ w_partition' = <<>>
    /\ w_pc' = "open"
    /\ UNCHANGED <<w_options, w_schema, w_encodings, w_pos, w_sink,
                   w_row_groups, w_footer, w_fault>>
    /\ UNCHANGED <<rangeVars, binVars, pagerVars>>

\* ChunkedWriter::finish: self.writer.end(None) writes the footer
Finish ==
    /\ w_pc = "open"
    /\ w_footer' = w_row_groups
    /\ w_pc' = "finished"
    /\ UNCHANGED <<w_options, w_schema, w_encodings, w_partition, w_pos, w_sink,
                   w_row_groups, w_calls, w_result, w_fault>>
    /\ UNCHANGED <<rangeVars, binVars, pagerVars>>

Next ==
    \/ Chunked
    \/ WriteChunkCall
    \/ WriteRowGroupOk
    \/ WriteRowGroupErr
    \/ WriteRowGroupPanic
    \/ WriteChunkReturn
    \/ Finish

InitRanges == RangesInit /\ BinIdle /\ PagerIdle /\ WriterIdle
InitBinary == BinInit /\ RangesIdle /\ PagerIdle /\ WriterIdle
InitPager == PagerInit /\ RangesIdle /\ BinIdle /\ WriterIdle
Init == WriterInit /\ RangesIdle /\ BinIdle /\ PagerIdle

SpecRanges == InitRanges /\ [][NextRanges]_vars
SpecBinary == InitBinary /\ [][NextBinary]_vars
SpecPager == InitPager /\ [][NextPager]_vars
Spec == Init /\ [][Next]_vars

\* ------------------------------------------------------------------------
\* C1
\* ------------------------------------------------------------------------
r_B == unwrap_or(r_size, DEFAULT_ROW_GROUP_SIZE)

\* the ranges yielded so far are contiguous from 0, each of length 1..B
RangesContiguous(out, B) ==
    \A i \in 1..Len(out) :
        /\ out[i][1] = (IF i = 1 THEN 0 ELSE out[i-1][1] + out[i-1][2])
        /\ out[i][2] >= 1
        /\ out[i][2] <= B

RangeLengths(out) == [i \in 1..Len(out) |-> out[i][2]]

ClaimBytesPerType ==
    IF p_type = "Boolean" THEN 1
    ELSE IF p_type \in {"Int32", "Float"} THEN 4
    ELSE IF p_type = "Int96" THEN 12
    ELSE 8
p_rows_per_page ==
    (IF p_page_size = None THEN 1024 * 1024 ELSE p_page_size) \div ClaimBytesPerType
p_top == p_column.column_top

PageLengths(pages) == [i \in 1..Len(pages) |-> pages[i].length]

\* C2: for a non-symbol column and a non-empty range of L rows the pager
\* yields ceil(L / rows_per_page) contiguous page ranges that start at
\* chunk_offset and cover the range; rows_per_page * pages >= L; every page
\* but the last has rows_per_page rows and the last has L mod rows_per_page
\* rows, or rows_per_page when L is evenly divisible.
C2_PageRanges ==
    /\ (p_pc \in {"iter", "done"} =>
          /\ p_rows_per_page >= 1
          /\ \A i \in 1..Len(p_pages) :
                /\ p_pages[i].offset
                     = (IF i = 1 THEN p_chunk_offset
                        ELSE p_pages[i-1].offset + p_pages[i-1].length)
                /\ p_pages[i].length >= 1
          /\ \A i \in 1..(Len(p_pages) - 1) : p_pages[i].length = p_rows_per_page
          /\ SumSeq(PageLengths(p_pages)) <= p_chunk_length)
    /\ (p_pc = "done" =>
          /\ Len(p_pages) = (p_chunk_length + p_rows_per_page - 1) \div p_rows_per_page
          /\ SumSeq(PageLengths(p_pages)) = p_chunk_length
          /\ p_rows_per_page * Len(p_pages) >= p_chunk_length
          /\ p_pages[Len(p_pages)].length
               = (IF p_chunk_length % p_rows_per_page = 0 THEN p_rows_per_page
                  ELSE p_chunk_length % p_rows_per_page))

\* a chunk was split into several pages, the last one truncated
C2_Witness ==
    /\ p_pc = "done"
    /\ Len(p_pages) >= 2
    /\ p_pages[Len(p_pages)].length < p_rows_per_page

\* the value of the materialized row that holds absolute row a of a Long column
LongValueOfRow(a) == 100 + (a - p_top + 1)

\* C3: for a page [offset, offset + length) and column_top T the buffer is
\* sliced at [lower, upper) with lower = max(0, offset - T) and
\* upper = max(0, offset + length - T), so lower <= upper; [0, T) gives the
\* empty slice, [T, T + k) gives [0, k), and a page that straddles T gives
\* [0, offset + length - T). The slice holds the rows at and above T.
C3_MaterializedRange ==
    \A i \in 1..Len(p_pages) :
        LET pg == p_pages[i]
            first == Max(pg.offset, p_top)
        IN  /\ pg.lower = Max(0, pg.offset - p_top)
            /\ pg.upper = Max(0, pg.offset + pg.length - p_top)
            /\ pg.lower <= pg.upper
            /\ (pg.offset = 0 /\ pg.length = p_top => pg.lower = pg.upper)
            /\ (pg.offset = p_top => pg.lower = 0 /\ pg.upper = pg.length)
            /\ (pg.offset < p_top /\ p_top < pg.offset + pg.length =>
                  pg.lower = 0 /\ pg.upper = pg.offset + pg.length - p_top)
            /\ (p_column.data_type = "Long" =>
                  pg.page.value.slice
                    = [k \in 1..(pg.upper - pg.lower) |-> LongValueOfRow(first + k - 1)])
            /\ (p_column.data_type = "Binary" =>
                  pg.page.value.buffer[1].ints
                    = [k \in 1..(pg.upper - pg.lower) |->
                         IF PatternRows(p_column.row_count)[first - p_top + k].null
                         THEN 0 ELSE 1])

\* pages below, at and across the column top have been built
C3_Witness ==
    /\ p_pc = "done"
    /\ p_top > 0
    /\ \E i \in 1..Len(p_pages) :
          p_pages[i].offset < p_top /\ p_top < p_pages[i].offset + p_pages[i].length
    /\ \E i \in 1..Len(p_pages) : p_pages[i].offset >= p_top

\* the rows of a page that lie below the column top
RowsBelowTop(pg) == Max(0, Min(p_top, pg.offset + pg.length) - pg.offset)

\* C4: the page built for [offset, offset + length) reports exactly `length`
\* rows, the rows below column_top among them as nulls, and the row counts of
\* the pages of a column chunk sum to the row-group length.
C4_PageReportsEveryRow ==
    p_column.data_type = "Binary" =>
        /\ \A i \in 1..Len(p_pages) :
              /\ p_pages[i].page.value.num_rows = p_pages[i].length
              /\ p_pages[i].page.value.null_count >= RowsBelowTop(p_pages[i])
        /\ (p_pc = "done" =>
              SumSeq([i \in 1..Len(p_pages) |-> p_pages[i].page.value.num_rows])
                = p_chunk_length)

\* ------------------------------------------------------------------------
\* C8, C9, C10: write_chunk on a ChunkedWriter
\* ------------------------------------------------------------------------
\* the pages of the row group at hand that have reached the sink
PagesOfCurrentRowGroup ==
    {k \in 1..Len(w_sink) :
        w_sink[k].call = Len(w_calls) + 1 /\ w_sink[k].row_group = w_pos}

\* C8: when encoding a page of a row group fails, write_chunk returns the
\* failure with no page of that row group written to the sink.
C8_NoPartialRowGroup ==
    w_pc = "failed" => PagesOfCurrentRowGroup = {}

\* C9: every encoder-level failure (OutOfSpec for a binary column, a failure
\* of the symbol encoder) is returned by write_chunk as an error: it is not
\* dropped, does not leave a row group without the column, and is no panic.
C9_FailureIsReturned ==
    /\ (w_fault # "none" => w_pc = "failed" /\ w_result.status = "Err")
    /\ (w_pc = "writing" /\ row_group_has_next(w_pos, w_partition_length)
           /\ w_created.status = "Ok"
          => Len(w_created.value)
               = Min(Len(w_partition), Min(Len(w_schema), Len(w_encodings))))

\* C11: every row group handed to the file writer holds one column stream
\* per schema field, in field order, the i-th built from partition column i
\* and encoding i; a partition whose number of columns differs from the
\* schema's is a fatal violation: no row group of it is written, and no
\* written row group has fewer column streams than the schema has fields.
C11_OneStreamPerSchemaField ==
    /\ (w_pc = "writing" /\ row_group_has_next(w_pos, w_partition_length)
           /\ w_created.status = "Ok"
          => \A i \in 1..Len(w_created.value) :
                /\ w_created.value[i].column = w_partition[i]
                /\ w_created.value[i].encoding = w_encodings[i])
    /\ (w_pc = "writing" /\ Len(w_partition) # Len(w_schema) => w_pos = 0)
    /\ \A k \in 1..Len(w_row_groups) : w_row_groups[k].columns = Len(w_schema)

RowGroupsOfCall(groups, c) == {k \in 1..Len(groups) : groups[k].call = c}

CeilDiv(n, d) == (n + d - 1) \div d

RECURSIVE ChunkBytes(_)
ChunkBytes(chunks) ==
    IF chunks = <<>> THEN <<>>
    ELSE (IF Head(chunks).kind = "bytes" THEN Head(chunks).ints ELSE <<>>)
            \o ChunkBytes(Tail(chunks))

PayloadChunks(buffer, def_len) == SubSeq(buffer, def_len + 1, Len(buffer))
PayloadBytes(buffer, def_len) == ChunkBytes(PayloadChunks(buffer, def_len))

IsValue(row) == ~row.null
NonNullRows(rows) == SelectSeq(rows, IsValue)
NullRowCount(rows) == Cardinality({i \in 1..Len(rows) : rows[i].null})

\* a reader of the Plain byte-array layout: the values of a payload
RECURSIVE ReadPlain(_)
ReadPlain(bytes) ==
    IF Len(bytes) < 4 THEN <<>>
    ELSE LET len == bytes[1] + 256 * bytes[2] + 65536 * bytes[3]
         IN  <<SubSeq(bytes, 5, 4 + len)>> \o ReadPlain(SubSeq(bytes, 5 + len, Len(bytes)))

\* the number of non-null values a page buffer carries
EmittedValues(buffer, def_len, encoding) ==
    IF encoding = "Plain" THEN Len(ReadPlain(PayloadBytes(buffer, def_len)))
    ELSE Len(buffer[def_len + 1].ints)

\* the payload bytes row i of the slice contributed: the growth of the payload
\* from the first i - 1 descriptors to the first i descriptors
RowContribution(i) ==
    Len(PayloadBytes(encode_values(SubSeq(b_offsets, 1, i), b_data, 0, <<>>, b_encoding), 0))
    - Len(PayloadBytes(encode_values(SubSeq(b_offsets, 1, i - 1), b_data, 0, <<>>, b_encoding), 0))

\* C5: a descriptor with a negative length header is marked null, adds no
\* payload byte and is counted once in null_count; a header >= 0 (0 included)
\* is marked non-null; when the page is assembled null_count plus the number
\* of emitted values is the page's row count.
C5_NullSentinel ==
    /\ (b_pc \in {"payload", "assemble", "done", "err"} =>
          /\ Len(b_buffer[1].ints) = Len(b_offsets)
          /\ \A i \in 1..Len(b_offsets) :
                /\ (row_len(b_data, b_offsets[i]) < 0) = b_rows[i].null
                /\ (b_buffer[1].ints[i] = 0) = (row_len(b_data, b_offsets[i]) < 0)
          /\ b_null_count = NullRowCount(b_rows))
    /\ (b_pc \in {"assemble", "done"} =>
          /\ \A i \in 1..Len(b_offsets) :
                row_len(b_data, b_offsets[i]) < 0 => RowContribution(i) = 0
          /\ b_null_count + EmittedValues(b_buffer, b_def_len, b_encoding)
                = Len(b_offsets))
    /\ (b_pc = "done" =>
          /\ b_result.status = "Ok"
          /\ b_result.value.null_count
                + EmittedValues(b_result.value.buffer,
                                b_result.value.definition_levels_byte_length, b_encoding)
                = b_result.value.num_rows
          /\ b_result.value.num_rows = Len(b_offsets))

\* a page was assembled from a slice holding a null, an empty and a non-empty row
C5_Witness ==
    /\ b_pc = "done"
    /\ \E i, j, k \in 1..Len(b_rows) :
          /\ b_rows[i].null
          /\ b_rows[j] = Val(<<>>)
          /\ ~b_rows[k].null /\ b_rows[k].bytes # <<>>

LE4(n) == <<n % 256, (n \div 256) % 256, (n \div 65536) % 256, (n \div 16777216) % 256>>

RECURSIVE ExpectedPlain(_)
ExpectedPlain(rows) ==
    IF rows = <<>> THEN <<>>
    ELSE (IF Head(rows).null THEN <<>> ELSE LE4(Len(Head(rows).bytes)) \o Head(rows).bytes)
            \o ExpectedPlain(Tail(rows))

\* C6: with Plain encoding the payload after the null prefix is, per non-null
\* row in row order, the 4-byte little-endian length and then that many value
\* bytes; null rows add nothing; "a", null, "ccc", "", null gives
\* [1,'a'][3,'c','c','c'][0] with rows 1 and 4 marked null.
C6_PlainPayload ==
    (b_encoding = "Plain" /\ b_pc \in {"assemble", "done"}) =>
        /\ PayloadBytes(b_buffer, b_def_len) = ExpectedPlain(b_rows)
        /\ ReadPlain(PayloadBytes(b_buffer, b_def_len))
              = [i \in 1..Len(NonNullRows(b_rows)) |-> NonNullRows(b_rows)[i].bytes]
        /\ b_def_len = 1
        /\ (b_rows = ExampleRows =>
              /\ PayloadBytes(b_buffer, b_def_len)
                    = <<1, 0, 0, 0, 97, 3, 0, 0, 0, 99, 99, 99, 0, 0, 0, 0>>
              /\ b_buffer[1].ints = <<1, 0, 1, 1, 0>>)

\* the five example rows have been encoded with Plain
C6_Witness ==
    /\ b_encoding = "Plain"
    /\ b_pc = "done"
    /\ b_rows = ExampleRows

RECURSIVE ConcatValues(_)
ConcatValues(rows) ==
    IF rows = <<>> THEN <<>>
    ELSE (IF Head(rows).null THEN <<>> ELSE Head(rows).bytes) \o ConcatValues(Tail(rows))

\* C7: with DeltaLengthByteArray the delta encoder is handed exactly the
\* lengths of the non-null rows in row order, its declared count
\* row_count - null_count is the number of lengths it yields, and the raw bytes
\* of the non-null values follow with no per-value header; an empty slice
\* gives an empty length sequence and no bytes; the example rows give
\* [1,3,0] and "accc".
C7_DeltaPayload ==
    (b_encoding = "DeltaLengthByteArray" /\ b_pc \in {"assemble", "done"}) =>
        LET payload == PayloadChunks(b_buffer, b_def_len) IN
        /\ Len(payload) >= 1
        /\ payload[1].kind = "delta"
        /\ payload[1].ints
              = [i \in 1..Len(NonNullRows(b_rows)) |-> Len(NonNullRows(b_rows)[i].bytes)]
        /\ payload[1].exact = Len(payload[1].ints)
        /\ payload[1].exact = Len(b_offsets) - b_null_count
        /\ \A i \in 2..Len(payload) : payload[i].kind = "bytes"
        /\ PayloadBytes(b_buffer, b_def_len) = ConcatValues(b_rows)
        /\ (b_offsets = <<>> => payload = <<Chunk("delta", <<>>, 0)>>)
        /\ (b_rows = ExampleRows =>
              /\ payload[1].ints = <<1, 3, 0>>
              /\ PayloadBytes(b_buffer, b_def_len) = <<97, 99, 99, 99>>)

\* the five example rows have been encoded with DeltaLengthByteArray
C7_Witness ==
    /\ b_encoding = "DeltaLengthByteArray"
    /\ b_pc = "done"
    /\ b_rows = ExampleRows


\* ------------------------------------------------------------------------
\* C12: the key slice of a symbol column
\* ------------------------------------------------------------------------
\* the i32 key of a row of a symbol column holding one key per row
key_of_row(column, row) ==
    decode_i32(slice(column.primary_data, 4 * row, 4 * row + 4))

\* C12: for a symbol column with one 32-bit key per row, the key slice handed
\* to the dictionary encoder for the row group [chunk_offset, chunk_offset +
\* chunk_length) is exactly the keys of the rows chunk_offset ..
\* chunk_offset + chunk_length - 1, for every chunk_offset, and no byte
\* outside the primary buffer is read.
C12_SymbolKeysOfRowGroup ==
    p_pc \in {"symbol", "fault"}
      => /\ p_keys.status = "Ok"
         /\ p_keys.value.keys
              = [k \in 1..p_chunk_length |-> key_of_row(p_column, p_chunk_offset + k - 1)]
         /\ 0 <= p_keys.value.from
         /\ p_keys.value.to <= Len(p_column.primary_data)

\* ------------------------------------------------------------------------
\* C13: the range splitting never faults
\* ------------------------------------------------------------------------
\* C13: for every page byte budget >= 1 and every physical type the page
\* splitting of column_chunk_to_pages never faults: rows_per_page is at least
\* 1, no step of 0 is taken, and the pages yielded cover the row-group range.
C13_SplittingNeverFaults ==
    /\ p_page_size = None \/ p_page_size >= 1
    /\ p_pc # "panic"
    /\ (p_pc \in {"iter", "done", "panic"} /\ p_column.data_type # "Symbol"
          => rows_per_page_of(p_page_size, p_type) >= 1)
    /\ (p_pc = "done" => SumSeq([k \in 1..Len(p_pages) |-> p_pages[k].length])
                           = p_chunk_length)
====
